---- MODULE Spec2Model ----
(***************************************************************************)
(* Model of the frame-acquisition engine of BabbleApp/camera.py: the       *)
(* serial framer (Camera.get_next_jpeg_frame) over byte sequences, and the *)
(* capture loop (Camera.run) with its consumer.                            *)
(***************************************************************************)
EXTENDS Integers, Sequences, FiniteSets, TLC

\* ---------------------------------------------------------------- bounds
\* number of chunks the serial device emits in one behaviour
MaxChunks == 2
\* number of chunks the device emits in a behaviour with a backlog
MaxBacklogChunks == 3
\* largest partial delivery (in bytes) from the wire into the OS buffer
MaxPiece == 1
\* frames the serial device emits while the capture loop runs
MaxFrames == 1
\* successful reads of the USB camera in one behaviour
MaxReads == 2
\* capture_event.set() calls of the consumer in one behaviour
MaxSets == 2
\* writes of config.capture_source by the GUI in one behaviour
MaxSourceChanges == 1
\* frames in a stream of well-formed frames sent back to back
MaxStreamFrames == 3

\* ------------------------------------------------------ program constants
BUFFER_SIZE == 32768
ETVR_HEADER == <<255, 160, 255, 161>>
ETVR_HEADER_LEN == 6
READ_SIZE == 2048
SP_MAX_INIT == 2560
JPEG_EOI == <<255, 217>>
QUEUE_MAX == 2
MAX_RESOLUTION == 600
NO_CRC_MARK_B == <<255, 161>>
NO_CRC_MARK == <<255, 160>>

\* ------------------------------------------------------------- variables
VARIABLES
  buffer,      \* Camera.buffer: the accumulator of not-yet-parsed bytes
  sp_max,      \* Camera.sp_max
  rx,          \* bytes waiting in the serial connection (conn.in_waiting of them)
  wire,        \* bytes the device has emitted that have not reached rx yet
  nsent,       \* number of chunks the device has emitted
  ret,         \* value returned by the last get_next_jpeg_frame call
  pre,         \* inputs of the call that has just returned, or NoCall
  pc,                      \* position of the capture thread in Camera.run
  should_push,             \* local of Camera.run
  image,                   \* the frame the capture thread is about to push
  camera_status,           \* Camera.camera_status
  capture_source,          \* config.capture_source, written by the GUI thread
  current_capture_source,  \* Camera.current_capture_source
  serial_connection,       \* Camera.serial_connection
  cv2_camera,              \* Camera.cv2_camera
  capture_event,           \* the request token
  cancellation_event,      \* the cancellation signal
  queue,                   \* Camera.camera_output_outgoing
  fresh,       \* no read has succeeded since the backend was last (re)opened
  pushed,      \* every frame put on the queue so far, in order
  nread,       \* successful backend reads so far
  nset,        \* capture_event.set() calls of the consumer so far
  nrise,       \* those of them that found the token clear
  nchg,        \* writes of the configuration by the GUI so far
  gui_cam_resolution_x,    \* settings.gui_cam_resolution_x, written by the GUI
  cv2_width,   \* the frame width the open cv2 device was asked for
  open_ok,     \* the last attempt to open a backend succeeded
  iter,        \* what the current loop iteration has done so far
  nwarn,       \* backpressure warnings printed so far
  shape,       \* (height, width) of an image given to clamp_max_res
  clamped      \* (height, width) of the image it returned, or <<>>

\* the variables of the byte-level framer and its serial device
fvars == <<buffer, sp_max, rx, wire, nsent, ret, pre>>
\* the variables of the capture loop, its consumer and the GUI
lvars == <<pc, should_push, image, camera_status, capture_source,
           current_capture_source, serial_connection, cv2_camera,
           capture_event, cancellation_event, queue, fresh, pushed, nread,
           nset, nrise, nchg, gui_cam_resolution_x, cv2_width, open_ok, iter,
           nwarn, shape, clamped>>
vars == <<buffer, sp_max, rx, wire, nsent, ret, pre, pc, should_push, image,
          camera_status, capture_source, current_capture_source,
          serial_connection, cv2_camera, capture_event, cancellation_event,
          queue, fresh, pushed, nread, nset, nrise, nchg,
          gui_cam_resolution_x, cv2_width, open_ok, iter, nwarn, shape,
          clamped>>

\* ---------------------------------------------------------------- helpers
Min(a, b) == IF a < b THEN a ELSE b

\* python s[a:b] for 0 <= a, 0 <= b
Slice(s, a, b) == SubSeq(s, a + 1, Min(b, Len(s)))

\* python s[a:]
Tail_(s, a) == SubSeq(s, a + 1, Len(s))

RECURSIVE Zeros(_)
Zeros(n) == IF n = 0 THEN <<>> ELSE IF n = 1 THEN <<0>>
            ELSE Zeros(n \div 2) \o Zeros(n - (n \div 2))

\* --------------------------------------------------------- CRC-8 / ROHC
RECURSIVE XorBits(_, _, _)
XorBits(a, b, k) == IF k = 0 THEN 0
                    ELSE ((a + b) % 2) + 2 * XorBits(a \div 2, b \div 2, k - 1)

XorNibble == [a \in 0..15 |-> [b \in 0..15 |-> XorBits(a, b, 4)]]

\* a ^ b on 8-bit values
Xor8(a, b) == 16 * XorNibble[a \div 16][b \div 16] + XorNibble[a % 16][b % 16]

\* eight shifts of the reflected register, polynomial 0xE0
RECURSIVE CrcShift(_, _)
CrcShift(c, k) == IF k = 0 THEN c
                  ELSE CrcShift(IF c % 2 = 1 THEN Xor8(c \div 2, 224) ELSE c \div 2, k - 1)

CrcTable == [c \in 0..255 |-> CrcShift(c, 8)]

\* the register after one more input byte b, for every register value c
CrcStep == [c \in 0..255 |-> [b \in 0..255 |-> CrcTable[Xor8(c, b)]]]

\* the register after the bytes s[i..j], starting from c
RECURSIVE CrcRange(_, _, _, _)
CrcRange(c, s, i, j) ==
  IF i > j THEN c
  ELSE IF i = j THEN CrcStep[c][s[i]]
  ELSE IF i + 1 = j THEN CrcStep[CrcStep[c][s[i]]][s[j]]
  ELSE IF i + 3 = j
       THEN CrcStep[CrcStep[CrcStep[CrcStep[c][s[i]]][s[i + 1]]][s[i + 2]]][s[j]]
  ELSE LET m == i + 4 * (((j - i) \div 8) + 1) - 1
           left == CrcRange(c, s, i, IF m < j THEN m ELSE j - 1)
       IN IF left >= 0 THEN CrcRange(left, s, (IF m < j THEN m ELSE j - 1) + 1, j)
          ELSE left

\* libscrc.rohc(data): reflected CRC-8, polynomial 0x07, initial value 0xFF
rohc(data) == CrcRange(255, data, 1, Len(data))

\* (~rohc(data) & 0xFF)
InvCrc(data) == 255 - rohc(data)

\* ---------------------------------------------------------------- framer
HeaderAt(s, i) == /\ s[i + 1] = 255 /\ s[i + 2] = 160
                  /\ s[i + 3] = 255 /\ s[i + 4] = 161

\* header offsets in lo..hi
HeaderPositions(s, lo, hi) == {i \in lo..hi : HeaderAt(s, i)}

\* first header offset in lo..hi, or -1
RECURSIVE FindIn(_, _, _)
FindIn(s, lo, hi) ==
  IF hi - lo < 64
  THEN LET P == HeaderPositions(s, lo, hi)
       IN IF P = {} THEN -1 ELSE CHOOSE i \in P : \A j \in P : i <= j
  ELSE LET m == (lo + hi) \div 2
           l == FindIn(s, lo, m)
       IN IF l # -1 THEN l ELSE FindIn(s, m + 1, hi)

\* last header offset in lo..hi, or -1
RECURSIVE RFindIn(_, _, _)
RFindIn(s, lo, hi) ==
  IF hi - lo < 64
  THEN LET P == HeaderPositions(s, lo, hi)
       IN IF P = {} THEN -1 ELSE CHOOSE i \in P : \A j \in P : i >= j
  ELSE LET m == (lo + hi) \div 2
           r == RFindIn(s, m + 1, hi)
       IN IF r # -1 THEN r ELSE RFindIn(s, lo, m)

\* bytes.find(ETVR_HEADER)
Find(s) == FindIn(s, 0, Len(s) - 4)

\* bytes.rfind(ETVR_HEADER)
RFind(s) == RFindIn(s, 0, Len(s) - 4)

RECURSIVE Pow2Floor(_)
Pow2Floor(m) == IF m < 2 THEN 1 ELSE 2 * Pow2Floor(m \div 2)

\* buffer_len > (self.sp_max * 2.3), the product taken in IEEE double
\* arithmetic: 2.3 is stored as 2.3 - 0.4 * 2^-51, so for sp a multiple of
\* 10 the exact integer 2.3 * sp is returned only when the error stays
\* within half a unit in the last place (8 * sp <= 5 * 2^k, 2^k the power
\* of two at or below the product); otherwise the product is the double
\* just below that integer.
SkipAhead(buffer_len, sp) ==
  LET m == (23 * sp) \div 10
  IN IF (23 * sp) % 10 = 0 /\ 8 * sp > 5 * Pow2Floor(m)
     THEN buffer_len >= m
     ELSE buffer_len > m

NoFrame == [frame |-> FALSE, jpeg |-> <<>>]
Frame(j) == [frame |-> TRUE, jpeg |-> j]

\* int.from_bytes(buffer[4:6], byteorder="little") + ETVR_HEADER_LEN + 2
EndOf(b) == b[5] + 256 * b[6] + ETVR_HEADER_LEN + 2

\* what a call leaves behind; beg and end are the call's locals (-1: not set)
Result(b, sp, c, r, beg, end) ==
  [buffer |-> b, sp_max |-> sp, rx |-> c, ret |-> r, beg |-> beg, end |-> end]

\* buffer_len >= end and self.buffer[end-4:end-2] == b"\xff\xd9"
Terminated_NoEoi(b, end) == Len(b) >= end

Terminated(b, end) == Len(b) >= end /\ Slice(b, end - 4, end - 2) = JPEG_EOI

\* the two tests that send a terminated candidate to the reject branch
ChecksumFails(b, end) ==
  /\ Slice(b, end - 2, end) # NO_CRC_MARK
  /\ Slice(b, end - 2, end - 1) # <<InvCrc(Slice(b, ETVR_HEADER_LEN, end - 2))>>

\* if end > self.sp_max: self.sp_max = end
RaiseSpMax_Assign(sp, end) == end

RaiseSpMax(sp, end) == IF end > sp THEN end ELSE sp

\* self.buffer = self.buffer[end:] after a checksum mismatch
Rejected_KeepTrailer(b, end) == Tail_(b, end - 2)

Rejected(b, end) == Tail_(b, end)

\* self.buffer = self.buffer[end-2:] after a frame was extracted
Remainder_PastFrame(b, end) == Tail_(b, end - 1)

Remainder(b, end) == Tail_(b, end - 2)

\* jpeg = self.buffer[ETVR_HEADER_LEN:end-2]
Jpeg_NoEoi(b, end) == Slice(b, ETVR_HEADER_LEN, end - 4)

Jpeg(b, end) == Slice(b, ETVR_HEADER_LEN, end - 2)

\* lines 217-233, on a buffer b2 that starts with a header found at beg
ParseCandidate(b2, sp, c1, beg) ==
  LET end == EndOf(b2)
      more == Len(c1) >= end
      b3 == IF more THEN b2 \o c1 ELSE b2
      c3 == IF more THEN <<>> ELSE c1
  IN IF Terminated(b3, end)
     THEN IF ChecksumFails(b3, end)
          THEN Result(Rejected(b3, end), sp, c3, NoFrame, beg, end)
          ELSE Result(Remainder(b3, end), RaiseSpMax(sp, end), c3,
                      Frame(Jpeg(b3, end)), beg, end)
     ELSE Result(b3, RaiseSpMax(sp, end), c3, NoFrame, beg, end)

GetNextJpegFrame(buf, sp, conn) ==
  LET n1 == Min(READ_SIZE, Len(conn))
      b1 == buf \o SubSeq(conn, 1, n1)
      c1 == Tail_(conn, n1)
  IN IF Len(b1) < ETVR_HEADER_LEN THEN Result(b1, sp, c1, NoFrame, -1, -1)
     ELSE LET beg == IF SkipAhead(Len(b1), sp) THEN RFind(b1) ELSE Find(b1)
          IN IF beg = -1 THEN Result(b1, sp, c1, NoFrame, -1, -1)
             ELSE LET b2 == Tail_(b1, beg)
                  IN IF Len(b2) < ETVR_HEADER_LEN
                     THEN Result(b2, sp, c1, NoFrame, beg, -1)
                     ELSE ParseCandidate(b2, sp, c1, beg)

\* get_serial_camera_picture, the part that touches the serial state: the
\* framer call, the early return when the frame does not decode, and the
\* discard of the serial buffer at the high-water mark.  r is the result of
\* get_next_jpeg_frame, decodes tells whether cv2.imdecode returns an image.
SerialPicture(r, decodes) ==
  LET flush == /\ ~(r.ret.frame /\ ~decodes)
               /\ Len(r.rx) >= BUFFER_SIZE
  IN [buffer |-> IF flush THEN <<>> ELSE r.buffer,
      rx |-> IF flush THEN <<>> ELSE r.rx,
      sp_max |-> r.sp_max,
      ret |-> r.ret,
      beg |-> r.beg,
      end |-> r.end,
      flushed |-> flush]

\* ------------------------------------------------- the serial device
LenField(n) == <<n % 256, n \div 256>>

\* JPEG bodies (the image bytes before the end-of-image marker)
Bodies == {<<16>>, <<255, 160>>}

\* a frame of firmware with checksum support: one checksum byte follows
\* the JPEG, whose last two bytes are the end-of-image marker
CrcFrame(b) == ETVR_HEADER \o LenField(Len(b) + 2) \o b \o JPEG_EOI
               \o <<InvCrc(b \o JPEG_EOI)>>

BadCrcFrame(b) == ETVR_HEADER \o LenField(Len(b) + 2) \o b \o JPEG_EOI
                  \o <<(InvCrc(b \o JPEG_EOI) + 1) % 256>>

\* a frame of firmware without checksum support: the next header follows
LegacyFrame(b) == ETVR_HEADER \o LenField(Len(b) + 2) \o b \o JPEG_EOI

BadEoiFrame(b) == ETVR_HEADER \o LenField(Len(b) + 2) \o b \o <<255, 216>>
                  \o <<InvCrc(b \o <<255, 216>>)>>

\* a frame whose length field counts the bytes before the end marker only
PayloadLenFrame(b) == ETVR_HEADER \o LenField(Len(b)) \o b \o JPEG_EOI
                      \o <<InvCrc(b)>>

\* a frame that repeats the second header marker after the JPEG
MarkBFrame(b) == ETVR_HEADER \o LenField(Len(b) + 2) \o b \o JPEG_EOI
                 \o <<255, 161>>

\* a complete frame, with checksum, longer than the initial sp_max
BigLen == SP_MAX_INIT + 2
BigBody == Zeros(BigLen - 2) \o JPEG_EOI
BigFrame == ETVR_HEADER \o LenField(BigLen) \o BigBody \o <<InvCrc(BigBody)>>
\* the first six bytes of such a frame, the rest of which never arrives
HdrBig == ETVR_HEADER \o LenField(BigLen)
\* noise that, after HdrBig and before one small frame, fills the accumulator
\* to exactly 2.3 times the end offset HdrBig announces
BulkLen == (23 * (BigLen + ETVR_HEADER_LEN + 2)) \div 10 - ETVR_HEADER_LEN - 10
Bulk == Zeros(BulkLen)
Flood == Zeros(BUFFER_SIZE + READ_SIZE)
Junk == <<1, 2, 3, 4, 5, 6>>
\* header, 100-byte payload, end marker, checksum byte, six junk bytes
Scenario == ETVR_HEADER \o LenField(102) \o Zeros(100) \o JPEG_EOI
            \o <<InvCrc(Zeros(100) \o JPEG_EOI)>> \o Junk

SmallChunks ==
  {CrcFrame(b) : b \in Bodies}
  \cup {BadCrcFrame(<<16>>), LegacyFrame(<<16>>), BadEoiFrame(<<16>>),
        PayloadLenFrame(<<16>>), MarkBFrame(<<16>>), <<0>>, Junk}

BacklogChunks == {HdrBig, BigFrame, Bulk, Flood, Scenario, CrcFrame(<<16>>)}

NoCall == [called |-> FALSE]

\* ------------------------------------------- the capture loop: its data
CONNECTING == "CONNECTING"
CONNECTED == "CONNECTED"
DISCONNECTED == "DISCONNECTED"

\* values of config.capture_source: None, the empty string, a Windows serial
\* port, a POSIX serial device, a camera index, and a camera name
NoSource == "None"
EmptySource == ""
ComPort == "COM3"
TtyPort == "/dev/ttyACM0"
UsbIndex == "0"
CamName == "HD Webcam"
Sources == {NoSource, EmptySource, ComPort, TtyPort, UsbIndex, CamName}

\* self.config.capture_source is not None and self.config.capture_source != ""
Configured(s) == s # NoSource /\ s # EmptySource

\* "COM" in str(self.config.capture_source)
HasCOM(s) == s = ComPort

\* any(x in str(self.config.capture_source) for x in ("COM", "/dev/tty"))
IsSerialSource(s) == s = ComPort \/ s = TtyPort

\* list_camera_names() and get_camera_index_by_name(name)
camera_list == {CamName}
ResolveSource(s) == IF s \in camera_list THEN UsbIndex ELSE s

\* self.serial_connection: None, or a port object that is open or closed
NoConn == [port |-> NoSource, is_open |-> FALSE]
Closed(conn) == [conn EXCEPT !.is_open = FALSE]

NoImage == [src |-> "none", n |-> 0, first |-> FALSE]

\* start_serial_connection(port); present: the port is enumerated, opens:
\* serial.Serial(...) succeeds
StartSerialConnection(conn, status, port, present, opens) ==
  IF conn.is_open /\ conn.port = port
  THEN [conn |-> conn, status |-> status, opened |-> FALSE,
        absent |-> FALSE, failed |-> FALSE]
  ELSE IF ~present
       THEN [conn |-> Closed(conn), status |-> status, opened |-> FALSE,
             absent |-> TRUE, failed |-> FALSE]
       ELSE IF opens
            THEN [conn |-> [port |-> port, is_open |-> TRUE],
                  status |-> CONNECTED, opened |-> TRUE,
                  absent |-> FALSE, failed |-> FALSE]
            ELSE [conn |-> Closed(conn), status |-> DISCONNECTED,
                  opened |-> FALSE, absent |-> FALSE, failed |-> TRUE]

\* an iteration of run that has done nothing yet
NoIter == [idle |-> FALSE, opener |-> "none", absent |-> FALSE,
           failed |-> FALSE, reopened |-> FALSE, stale |-> FALSE,
           waited |-> "no", reads |-> 0]

\* the fields of the camera and of its surroundings that the byte-level
\* framer does not touch
Untouched ==
  /\ gui_cam_resolution_x = 0
  /\ cv2_width = 0
  /\ iter = NoIter
  /\ nwarn = 0

\* no image is at clamp_max_res
NoPicture == shape = <<>> /\ clamped = <<>>

\* Camera.__init__, for a configuration that names source src
InitCamera(src) ==
  /\ pc = "top"
  /\ should_push = TRUE
  /\ image = NoImage
  /\ camera_status = CONNECTING
  /\ capture_source = src
  /\ current_capture_source = src
  /\ serial_connection = NoConn
  /\ cv2_camera = "None"
  /\ capture_event = FALSE
  /\ cancellation_event = FALSE
  /\ queue = <<>>
  /\ fresh = FALSE
  /\ pushed = <<>>
  /\ nread = 0
  /\ nset = 0
  /\ nrise = 0
  /\ nchg = 0
  /\ open_ok = FALSE
  /\ Untouched

\* the capture thread inside get_serial_camera_picture on a port that
\* start_serial_connection has opened
OnOpenPort ==
  /\ pc = "pull"
  /\ should_push = FALSE
  /\ image = NoImage
  /\ camera_status = CONNECTED
  /\ capture_source = ComPort
  /\ current_capture_source = ComPort
  /\ serial_connection = [port |-> ComPort, is_open |-> TRUE]
  /\ cv2_camera = "None"
  /\ capture_event = FALSE
  /\ cancellation_event = FALSE
  /\ queue = <<>>
  /\ fresh = TRUE
  /\ pushed = <<>>
  /\ nread = 0
  /\ nset = 0
  /\ nrise = 0
  /\ nchg = 0
  /\ open_ok = TRUE
  /\ Untouched

InitFramer ==
  /\ buffer = <<>>
  /\ sp_max = SP_MAX_INIT
  /\ rx = <<>>
  /\ wire = <<>>
  /\ nsent = 0
  /\ ret = NoFrame
  /\ pre = NoCall
  /\ OnOpenPort
  /\ NoPicture

\* the device emits one more chunk
Produce(Menu, Max) ==
  /\ wire = <<>>
  /\ nsent < Max
  /\ \E c \in Menu : wire' = c
  /\ nsent' = nsent + 1
  /\ pre' = NoCall
  /\ UNCHANGED <<buffer, sp_max, rx, ret>>
  /\ UNCHANGED lvars

\* the first k bytes on the wire reach the connection's input buffer
Arrive(k) ==
  /\ rx' = rx \o SubSeq(wire, 1, k)
  /\ wire' = Tail_(wire, k)
  /\ pre' = NoCall
  /\ UNCHANGED <<buffer, sp_max, nsent, ret>>
  /\ UNCHANGED lvars

\* everything on the wire arrives
DeliverAll == wire # <<>> /\ Arrive(Len(wire))

\* only a piece of what is on the wire arrives
DeliverPiece == \E k \in 1..MaxPiece : k < Len(wire) /\ Arrive(k)

\* one call of get_serial_camera_picture on an open, connected port
SerialCall ==
  /\ Len(rx) > 0
  /\ \E f \in {GetNextJpegFrame(buffer, sp_max, rx)} :
       \E decodes \in (IF f.ret.frame THEN BOOLEAN ELSE {TRUE}) :
         \E r \in {SerialPicture(f, decodes)} :
            /\ buffer' = r.buffer
            /\ rx' = r.rx
            /\ sp_max' = r.sp_max
            /\ ret' = r.ret
            /\ pre' = [called |-> TRUE, buffer |-> buffer, rx |-> rx,
                       sp_max |-> sp_max, beg |-> r.beg, end |-> r.end,
                       flushed |-> r.flushed]
  /\ UNCHANGED <<wire, nsent>>
  /\ UNCHANGED lvars

ProduceSmall == Produce(SmallChunks, MaxChunks)

ProduceBacklog == Produce(BacklogChunks, MaxBacklogChunks)

NextFramer == ProduceSmall \/ DeliverAll \/ DeliverPiece \/ SerialCall

SpecFramer == InitFramer /\ [][NextFramer]_vars

NextBacklog == ProduceBacklog \/ DeliverAll \/ SerialCall

SpecBacklog == InitFramer /\ [][NextBacklog]_vars

\* ------------------------------------------------ the capture loop
Init ==
  /\ buffer = <<>>
  /\ sp_max = SP_MAX_INIT
  /\ rx = <<>>
  /\ wire = <<>>
  /\ nsent = 0
  /\ ret = NoFrame
  /\ pre = NoCall
  /\ \E src \in Sources : InitCamera(src)
  /\ NoPicture

\* the settings have changed since the open cv2 device was set up with them
Stale == cv2_camera = "opened" /\ gui_cam_resolution_x # cv2_width

\* run, lines 88-93: the cancellation check at the top of an iteration
LoopTop ==
  /\ pc = "top"
  /\ pc' = IF cancellation_event THEN "done" ELSE "open"
  /\ should_push' = IF cancellation_event THEN should_push ELSE TRUE
  /\ iter' = [NoIter EXCEPT !.stale = Stale]
  /\ UNCHANGED <<image, camera_status, capture_source, current_capture_source,
                 serial_connection, cv2_camera, capture_event,
                 cancellation_event, queue, fresh, pushed, nread, nset,
                 nrise, nchg>>
  /\ UNCHANGED fvars
  /\ UNCHANGED <<gui_cam_resolution_x, cv2_width, open_ok, nwarn, shape, clamped>>

\* run, lines 96-98 and 153-154: no source is configured
OpenNoSource ==
  /\ pc = "open"
  /\ ~Configured(capture_source)
  /\ pc' = "idle"
  /\ iter' = [iter EXCEPT !.idle = TRUE]
  /\ UNCHANGED <<should_push, image, camera_status, capture_source,
                 current_capture_source, serial_connection, cv2_camera,
                 capture_event, cancellation_event, queue, fresh, pushed,
                 nread, nset, nrise, nchg>>
  /\ UNCHANGED fvars
  /\ UNCHANGED <<gui_cam_resolution_x, cv2_width, open_ok, nwarn, shape, clamped>>

\* run, lines 155-157: cancellation_event.wait(WAIT_TIME) returns
IdleWait ==
  /\ pc = "idle"
  /\ pc' = IF cancellation_event THEN "done" ELSE "token"
  /\ camera_status' = IF cancellation_event THEN DISCONNECTED ELSE camera_status
  /\ UNCHANGED <<should_push, image, capture_source, current_capture_source,
                 serial_connection, cv2_camera, capture_event,
                 cancellation_event, queue, fresh, pushed, nread, nset,
                 nrise, nchg>>
  /\ UNCHANGED fvars
  /\ UNCHANGED <<gui_cam_resolution_x, cv2_width, open_ok, iter, nwarn, shape, clamped>>

\* run, lines 100-108, with start_serial_connection
OpenSerial ==
  /\ pc = "open"
  /\ Configured(capture_source) /\ HasCOM(capture_source)
  /\ IF \/ serial_connection = NoConn
        \/ camera_status = DISCONNECTED
        \/ capture_source # current_capture_source
     THEN \E present \in BOOLEAN, opens \in BOOLEAN :
            \E r \in {StartSerialConnection(serial_connection, camera_status,
                                            capture_source, present, opens)} :
               /\ current_capture_source' = capture_source
               /\ serial_connection' = r.conn
               /\ camera_status' = r.status
               /\ fresh' = IF r.opened THEN TRUE ELSE fresh
               /\ rx' = IF r.conn = serial_connection THEN rx ELSE <<>>
               /\ open_ok' = IF r.opened \/ r.absent \/ r.failed
                             THEN r.opened ELSE open_ok
               /\ iter' = [iter EXCEPT !.opener = "serial",
                                       !.absent = r.absent,
                                       !.failed = r.failed]
     ELSE /\ iter' = [iter EXCEPT !.opener = "serial"]
          /\ UNCHANGED <<current_capture_source, serial_connection,
                         camera_status, fresh, rx, open_ok>>
  /\ pc' = "token"
  /\ UNCHANGED <<should_push, image, capture_source, cv2_camera,
                 capture_event, cancellation_event, queue, pushed, nread,
                 nset, nrise, nchg>>
  /\ UNCHANGED <<buffer, sp_max, wire, nsent, ret, pre>>
  /\ UNCHANGED <<gui_cam_resolution_x, cv2_width, nwarn, shape, clamped>>

\* run, lines 109-116: the USB branch decides whether to reopen
OpenUsb ==
  /\ pc = "open"
  /\ Configured(capture_source) /\ ~HasCOM(capture_source)
  /\ pc' = IF \/ cv2_camera # "opened"
              \/ camera_status = DISCONNECTED
              \/ capture_source # current_capture_source
           THEN "usb_open" ELSE "token"
  /\ iter' = [iter EXCEPT !.opener = "usb"]
  /\ UNCHANGED <<should_push, image, camera_status, capture_source,
                 current_capture_source, serial_connection, cv2_camera,
                 capture_event, cancellation_event, queue, fresh, pushed,
                 nread, nset, nrise, nchg>>
  /\ UNCHANGED fvars
  /\ UNCHANGED <<gui_cam_resolution_x, cv2_width, open_ok, nwarn, shape, clamped>>

\* run, lines 119-152: after the wait, cv2.VideoCapture on the source read
\* again from the configuration; VideoCapture(None) raises out of run
UsbReopen ==
  /\ pc = "usb_open"
  /\ IF cancellation_event
     THEN /\ pc' = "done"
          /\ UNCHANGED <<should_push, current_capture_source, cv2_camera,
                         fresh, cv2_width, open_ok, iter>>
     ELSE /\ current_capture_source' = ResolveSource(capture_source)
          /\ IF capture_source = NoSource
             THEN /\ pc' = "crashed"
                  /\ UNCHANGED <<should_push, cv2_camera, fresh, cv2_width,
                                 open_ok, iter>>
             ELSE \E opens \in BOOLEAN :
                    /\ cv2_camera' = IF opens THEN "opened" ELSE "closed"
                    /\ cv2_width' = gui_cam_resolution_x
                    /\ fresh' = IF opens THEN TRUE ELSE fresh
                    /\ open_ok' = opens
                    /\ iter' = [iter EXCEPT !.reopened = TRUE,
                                            !.failed = ~opens]
                    /\ should_push' = FALSE
                    /\ pc' = "token"
  /\ UNCHANGED <<image, camera_status, capture_source, serial_connection,
                 capture_event, cancellation_event, queue, pushed, nread,
                 nset, nrise, nchg>>
  /\ UNCHANGED fvars
  /\ UNCHANGED <<gui_cam_resolution_x, nwarn, shape, clamped>>

\* what the wait of line 161 returned: it is not called on a reopen
Waited(push, token) ==
  IF ~push THEN "no" ELSE IF token THEN "set" ELSE "timeout"

\* run, line 161: the iteration is given up
Skips_Never(push, token) == FALSE

Skips(push, token) == push /\ ~token

\* run, lines 161-162: capture_event.wait(timeout=0.001)
WaitToken ==
  /\ pc = "token"
  /\ pc' = IF Skips(should_push, capture_event) THEN "top" ELSE "pull"
  /\ iter' = [(IF Skips(should_push, capture_event) THEN NoIter ELSE iter)
               EXCEPT !.waited = Waited(should_push, capture_event)]
  /\ UNCHANGED <<should_push, image, camera_status, capture_source,
                 current_capture_source, serial_connection, cv2_camera,
                 capture_event, cancellation_event, queue, fresh, pushed,
                 nread, nset, nrise, nchg>>
  /\ UNCHANGED fvars
  /\ UNCHANGED <<gui_cam_resolution_x, cv2_width, open_ok, nwarn, shape, clamped>>

\* run, line 163: the source has been set to None in the meantime
PullNoSource ==
  /\ pc = "pull"
  /\ capture_source = NoSource
  /\ pc' = "top"
  /\ iter' = NoIter
  /\ UNCHANGED <<should_push, image, camera_status, capture_source,
                 current_capture_source, serial_connection, cv2_camera,
                 capture_event, cancellation_event, queue, fresh, pushed,
                 nread, nset, nrise, nchg>>
  /\ UNCHANGED fvars
  /\ UNCHANGED <<gui_cam_resolution_x, cv2_width, open_ok, nwarn, shape, clamped>>

\* the occupancy at which push_image_to_queue prints its warning
Backpressure_Any(qsize) == qsize > 0

Backpressure(qsize) == qsize > 1

\* push_image_to_queue, lines 324-328: the warnings printed once the
\* occupancy check has seen qsize frames on the queue
Warned(qsize) == IF Backpressure(qsize) THEN nwarn + 1 ELSE nwarn

\* run, lines 164-166, with get_serial_camera_picture up to the put of
\* push_image_to_queue
PullSerial ==
  /\ pc = "pull"
  /\ IsSerialSource(capture_source)
  /\ IF serial_connection = NoConn \/ camera_status = DISCONNECTED
     THEN /\ pc' = "after"
          /\ UNCHANGED <<buffer, sp_max, rx, ret, image, camera_status,
                         serial_connection, fresh, nread, iter, nwarn>>
     ELSE \E fails \in BOOLEAN :
       IF ~serial_connection.is_open \/ fails
       THEN /\ serial_connection' = Closed(serial_connection)
            /\ camera_status' = DISCONNECTED
            /\ rx' = <<>>
            /\ pc' = "after"
            /\ iter' = [iter EXCEPT !.reads = 1, !.failed = TRUE]
            /\ UNCHANGED <<buffer, sp_max, ret, image, fresh, nread, nwarn>>
       ELSE IF rx = <<>>
       THEN /\ pc' = "after"
            /\ iter' = [iter EXCEPT !.reads = 1]
            /\ UNCHANGED <<buffer, sp_max, rx, ret, image, camera_status,
                           serial_connection, fresh, nread, nwarn>>
       ELSE \E f \in {GetNextJpegFrame(buffer, sp_max, rx)} :
              \E decodes \in (IF f.ret.frame THEN BOOLEAN ELSE {TRUE}) :
                /\ sp_max' = f.sp_max
                /\ ret' = f.ret
                /\ iter' = [iter EXCEPT !.reads = 1]
                /\ UNCHANGED <<camera_status, serial_connection>>
                /\ IF f.ret.frame /\ decodes
                   THEN /\ nread' = nread + 1
                        /\ fresh' = FALSE
                   ELSE UNCHANGED <<nread, fresh>>
                /\ IF f.ret.frame /\ decodes /\ should_push
                   THEN /\ image' = [src |-> "serial", n |-> nread + 1,
                                     first |-> fresh]
                        /\ nwarn' = Warned(Len(queue))
                        /\ buffer' = f.buffer
                        /\ rx' = f.rx
                        /\ pc' = "put"
                   ELSE \E r \in {SerialPicture(f, decodes)} :
                          /\ buffer' = r.buffer
                          /\ rx' = r.rx
                          /\ pc' = "after"
                          /\ UNCHANGED <<image, nwarn>>
  /\ UNCHANGED <<should_push, capture_source, current_capture_source,
                 cv2_camera, capture_event, cancellation_event, queue,
                 pushed, nset, nrise, nchg>>
  /\ UNCHANGED <<wire, nsent, pre>>
  /\ UNCHANGED <<gui_cam_resolution_x, cv2_width, open_ok, shape, clamped>>

\* run, lines 167-169, with __del__ and get_cv2_camera_picture up to the put
\* of push_image_to_queue
PullUsbUpTo(MaxOk) ==
  /\ pc = "pull"
  /\ capture_source # NoSource /\ ~IsSerialSource(capture_source)
  /\ serial_connection' = Closed(serial_connection)
  /\ rx' = IF serial_connection.is_open THEN <<>> ELSE rx
  /\ IF cv2_camera # "opened"
     THEN /\ camera_status' = DISCONNECTED
          /\ pc' = "after"
          /\ iter' = [iter EXCEPT !.reads = 1, !.failed = TRUE]
          /\ UNCHANGED <<image, fresh, nread, nwarn>>
     ELSE \E ok \in (IF nread < MaxOk THEN BOOLEAN ELSE {FALSE}) :
            IF ok
            THEN /\ nread' = nread + 1
                 /\ fresh' = FALSE
                 /\ iter' = [iter EXCEPT !.reads = 1]
                 /\ image' = IF should_push
                             THEN [src |-> "usb", n |-> nread + 1, first |-> fresh]
                             ELSE image
                 /\ nwarn' = IF should_push THEN Warned(Len(queue)) ELSE nwarn
                 /\ pc' = IF should_push THEN "put" ELSE "after"
                 /\ UNCHANGED camera_status
            ELSE /\ camera_status' = DISCONNECTED
                 /\ pc' = "after"
                 /\ iter' = [iter EXCEPT !.reads = 1, !.failed = TRUE]
                 /\ UNCHANGED <<image, fresh, nread, nwarn>>
  /\ UNCHANGED <<should_push, capture_source, current_capture_source,
                 cv2_camera, capture_event, cancellation_event, queue,
                 pushed, nset, nrise, nchg>>
  /\ UNCHANGED <<buffer, sp_max, wire, nsent, ret, pre>>
  /\ UNCHANGED <<gui_cam_resolution_x, cv2_width, open_ok, shape, clamped>>

PullUsb == PullUsbUpTo(MaxReads)

\* push_image_to_queue, line 329: the blocking put
PutImage ==
  /\ pc = "put"
  /\ Len(queue) < QUEUE_MAX
  /\ queue' = Append(queue, image)
  /\ pushed' = Append(pushed, image)
  /\ pc' = "clear"
  /\ UNCHANGED <<should_push, image, camera_status, capture_source,
                 current_capture_source, serial_connection, cv2_camera,
                 capture_event, cancellation_event, fresh, nread, nset,
                 nrise, nchg>>
  /\ UNCHANGED fvars
  /\ UNCHANGED <<gui_cam_resolution_x, cv2_width, open_ok, iter, nwarn, shape, clamped>>

\* what capture_event.clear() leaves in the token
Cleared_Kept(token) == token

Cleared(token) == FALSE

\* push_image_to_queue, line 330
ClearToken ==
  /\ pc = "clear"
  /\ capture_event' = Cleared(capture_event)
  /\ pc' = IF image.src = "serial" THEN "flush" ELSE "after"
  /\ UNCHANGED <<should_push, image, camera_status, capture_source,
                 current_capture_source, serial_connection, cv2_camera,
                 cancellation_event, queue, fresh, pushed, nread, nset,
                 nrise, nchg>>
  /\ UNCHANGED fvars
  /\ UNCHANGED <<gui_cam_resolution_x, cv2_width, open_ok, iter, nwarn, shape, clamped>>

\* get_serial_camera_picture, lines 267-270, after a push
FlushAfterPush ==
  /\ pc = "flush"
  /\ IF Len(rx) >= BUFFER_SIZE
     THEN rx' = <<>> /\ buffer' = <<>>
     ELSE UNCHANGED <<rx, buffer>>
  /\ pc' = "after"
  /\ UNCHANGED <<should_push, image, camera_status, capture_source,
                 current_capture_source, serial_connection, cv2_camera,
                 capture_event, cancellation_event, queue, fresh, pushed,
                 nread, nset, nrise, nchg>>
  /\ UNCHANGED <<sp_max, wire, nsent, ret, pre>>
  /\ UNCHANGED <<gui_cam_resolution_x, cv2_width, open_ok, iter, nwarn, shape, clamped>>

\* run, lines 170-172
AfterPull ==
  /\ pc = "after"
  /\ camera_status' = IF ~should_push THEN CONNECTED ELSE camera_status
  /\ pc' = "top"
  /\ iter' = NoIter
  /\ UNCHANGED <<should_push, image, capture_source, current_capture_source,
                 serial_connection, cv2_camera, capture_event,
                 cancellation_event, queue, fresh, pushed, nread, nset,
                 nrise, nchg>>
  /\ UNCHANGED fvars
  /\ UNCHANGED <<gui_cam_resolution_x, cv2_width, open_ok, nwarn, shape, clamped>>

\* the consumer asks for a frame: capture_event.set()
RequestUpTo(MaxCalls) ==
  /\ nset < MaxCalls
  /\ capture_event' = TRUE
  /\ nset' = nset + 1
  /\ nrise' = IF capture_event THEN nrise ELSE nrise + 1
  /\ UNCHANGED <<pc, should_push, image, camera_status, capture_source,
                 current_capture_source, serial_connection, cv2_camera,
                 cancellation_event, queue, fresh, pushed, nread, nchg>>
  /\ UNCHANGED fvars
  /\ UNCHANGED <<gui_cam_resolution_x, cv2_width, open_ok, iter, nwarn, shape, clamped>>

Request == RequestUpTo(MaxSets)

\* the consumer takes the oldest frame off the queue
Take ==
  /\ queue # <<>>
  /\ queue' = Tail(queue)
  /\ UNCHANGED <<pc, should_push, image, camera_status, capture_source,
                 current_capture_source, serial_connection, cv2_camera,
                 capture_event, cancellation_event, fresh, pushed, nread,
                 nset, nrise, nchg>>
  /\ UNCHANGED fvars
  /\ UNCHANGED <<gui_cam_resolution_x, cv2_width, open_ok, iter, nwarn, shape, clamped>>

\* the application shuts down: cancellation_event.set()
Cancel ==
  /\ ~cancellation_event
  /\ cancellation_event' = TRUE
  /\ UNCHANGED <<pc, should_push, image, camera_status, capture_source,
                 current_capture_source, serial_connection, cv2_camera,
                 capture_event, queue, fresh, pushed, nread, nset, nrise,
                 nchg>>
  /\ UNCHANGED fvars
  /\ UNCHANGED <<gui_cam_resolution_x, cv2_width, open_ok, iter, nwarn, shape, clamped>>

\* the GUI writes another source into the configuration
SetSource ==
  /\ nchg < MaxSourceChanges
  /\ \E s \in Sources \ {capture_source} : capture_source' = s
  /\ nchg' = nchg + 1
  /\ UNCHANGED <<pc, should_push, image, camera_status,
                 current_capture_source, serial_connection, cv2_camera,
                 capture_event, cancellation_event, queue, fresh, pushed,
                 nread, nset, nrise>>
  /\ UNCHANGED fvars
  /\ UNCHANGED <<gui_cam_resolution_x, cv2_width, open_ok, iter, nwarn, shape, clamped>>

\* the frame widths the GUI offers; 0 leaves the device's own width
Widths == {0, 640}

\* the GUI writes another frame width into the settings; the frame height,
\* the frame rate and use_ffmpeg are read at the same place of run, lines
\* 128-151, and nowhere else, so the width stands for all four
SetResolution ==
  /\ nchg < MaxSourceChanges
  /\ \E w \in Widths \ {gui_cam_resolution_x} : gui_cam_resolution_x' = w
  /\ nchg' = nchg + 1
  /\ UNCHANGED <<pc, should_push, image, camera_status, capture_source,
                 current_capture_source, serial_connection, cv2_camera,
                 capture_event, cancellation_event, queue, fresh, pushed,
                 nread, nset, nrise>>
  /\ UNCHANGED fvars
  /\ UNCHANGED <<cv2_width, open_ok, iter, nwarn, shape, clamped>>

\* the serial device sends one frame, and the first byte of what follows it
EmitFrame ==
  /\ serial_connection.is_open
  /\ nsent < MaxFrames
  /\ rx' = rx \o CrcFrame(<<nsent>>) \o <<0>>
  /\ nsent' = nsent + 1
  /\ UNCHANGED <<buffer, sp_max, wire, ret, pre>>
  /\ UNCHANGED lvars

Next ==
  \/ LoopTop \/ OpenNoSource \/ IdleWait \/ OpenSerial \/ OpenUsb
  \/ UsbReopen \/ WaitToken \/ PullNoSource \/ PullSerial \/ PullUsb
  \/ PutImage \/ ClearToken \/ FlushAfterPush \/ AfterPull
  \/ Request \/ Take \/ Cancel \/ SetSource \/ EmitFrame

Spec == Init /\ [][Next]_vars

\* ------------------------------------- a cv2 camera whose settings change
InitSettings ==
  /\ buffer = <<>>
  /\ sp_max = SP_MAX_INIT
  /\ rx = <<>>
  /\ wire = <<>>
  /\ nsent = 0
  /\ ret = NoFrame
  /\ pre = NoCall
  /\ \E src \in {UsbIndex, CamName} : InitCamera(src)
  /\ NoPicture

NextSettings ==
  \/ LoopTop \/ OpenUsb \/ UsbReopen \/ WaitToken \/ PullUsb
  \/ PutImage \/ ClearToken \/ AfterPull
  \/ Request \/ Take \/ Cancel \/ SetResolution

SpecSettings == InitSettings /\ [][NextSettings]_vars

\* ------------------------------------------------------- clamp_max_res
Max2(a, b) == IF a > b THEN a ELSE b

RECURSIVE Pow2(_)
Pow2(n) == IF n <= 0 THEN 1 ELSE 2 * Pow2(n - 1)

\* x doubled n times, modulo m
RECURSIVE Doubled(_, _, _)
Doubled(x, n, m) == IF n = 0 THEN x ELSE Doubled((2 * x) % m, n - 1, m)

\* the least t >= from with MAX_RESOLUTION * 2^t >= m: the double
\* MAX_RESOLUTION / m has the exponent -t
RECURSIVE ScaleExp(_, _)
ScaleExp(m, from) ==
  IF MAX_RESOLUTION * Pow2(from) >= m THEN from ELSE ScaleExp(m, from + 1)

\* the greatest j >= from with 2^j < n, or from - 1: the doubles just below
\* the integer n are 2^(j-52) apart
RECURSIVE GapExp(_, _)
GapExp(n, from) == IF Pow2(from) < n THEN GapExp(n, from + 1) ELSE from - 1

\* int(x * scale) for scale = MAX_RESOLUTION / m in IEEE double arithmetic,
\* m > MAX_RESOLUTION and x >= 1.  The quotient is rounded to a 53-bit
\* significand S with exponent -(52 + t); r is what the division leaves and
\* 'down' says that S was rounded down (ties to even).  The product
\* x * scale is then rounded again and truncated: it falls below the exact
\* integer n = MAX_RESOLUTION * x / m only when the quotient was rounded down
\* by more than half of the gap between n and the double before it.
Scaled(x, m) ==
  LET t    == ScaleExp(m, 1)
      r2   == Doubled(MAX_RESOLUTION % (2 * m), 52 + t, 2 * m)
      r    == r2 % m
      down == (2 * r < m) \/ (2 * r = m /\ r2 < m)
      n    == (MAX_RESOLUTION * x) \div m
      j    == GapExp(n, 0)
  IN  IF (MAX_RESOLUTION * x) % m # 0 \/ r = 0 \/ ~down \/ n = 0 THEN n
      ELSE IF 2 * x * r > m * Pow2(t + j) THEN n - 1 ELSE n

\* clamp_max_res on an image of shape (height, width): the shape of what it
\* returns
ClampMaxRes(s) ==
  LET max_value == Max2(s[1], s[2])
  IN  IF max_value > MAX_RESOLUTION
      THEN <<Scaled(s[1], max_value), Scaled(s[2], max_value)>>
      ELSE s

\* the image heights and widths tried
Dims == {240, 300, 400, 480, 580, 600, 601, 640, 696, 720, 1109, 1200}

InitClamp ==
  /\ buffer = <<>>
  /\ sp_max = SP_MAX_INIT
  /\ rx = <<>>
  /\ wire = <<>>
  /\ nsent = 0
  /\ ret = NoFrame
  /\ pre = NoCall
  /\ InitCamera(NoSource)
  /\ shape \in Dims \X Dims
  /\ clamped = <<>>

\* push_image_to_queue, line 329, hands the image to clamp_max_res
Clamp ==
  /\ clamped = <<>>
  /\ clamped' = ClampMaxRes(shape)
  /\ UNCHANGED <<pc, should_push, image, camera_status, capture_source,
                 current_capture_source, serial_connection, cv2_camera,
                 capture_event, cancellation_event, queue, fresh, pushed,
                 nread, nset, nrise, nchg, gui_cam_resolution_x, cv2_width,
                 open_ok, iter, nwarn, shape>>
  /\ UNCHANGED fvars

NextClamp == Clamp

SpecClamp == InitClamp /\ [][NextClamp]_vars

\* ---------------------------------------- the hand-off with a slow consumer
\* the camera of USB index 0, and a consumer that may ask for one frame more
\* than the queue holds without taking any
InitHandoff ==
  /\ buffer = <<>>
  /\ sp_max = SP_MAX_INIT
  /\ rx = <<>>
  /\ wire = <<>>
  /\ nsent = 0
  /\ ret = NoFrame
  /\ pre = NoCall
  /\ InitCamera(UsbIndex)
  /\ NoPicture

RequestHandoff == RequestUpTo(QUEUE_MAX + 1)

\* the warm-up read and one read for every request
PullUsbHandoff == PullUsbUpTo(QUEUE_MAX + 2)

\* a step of the capture thread
CaptureStep ==
  \/ LoopTop \/ OpenUsb \/ UsbReopen \/ WaitToken \/ PullUsbHandoff
  \/ PutImage \/ ClearToken \/ AfterPull

NextHandoff ==
  \/ LoopTop \/ OpenUsb \/ UsbReopen \/ WaitToken \/ PullUsbHandoff
  \/ PutImage \/ ClearToken \/ AfterPull
  \/ RequestHandoff \/ Take \/ Cancel

\* the capture thread is scheduled as long as it is not blocked; nothing
\* obliges the consumer to take a frame
SpecHandoff == InitHandoff /\ [][NextHandoff]_vars /\ WF_vars(CaptureStep)

\* ------------------------------------------------ the framer's claims
\* the accumulator of the call that has just returned, after its first read
FirstRead == pre.buffer \o SubSeq(pre.rx, 1, Min(READ_SIZE, Len(pre.rx)))

\* every byte that call has had in the accumulator
Taken == SubSeq(pre.buffer \o pre.rx, 1, Len(pre.buffer) + Len(pre.rx) - Len(rx))

\* those bytes from the header the call chose
Candidate == Tail_(Taken, pre.beg)

\* the call parsed a candidate that was buffered up to its end offset
Buffered == /\ pre.called /\ ~pre.flushed /\ pre.beg # -1 /\ pre.end # -1
            /\ Len(Candidate) >= pre.end

MarkerA == SubSeq(ETVR_HEADER, 1, 2)
MarkerB == SubSeq(ETVR_HEADER, 3, 4)
LengthOf(s) == s[5] + 256 * s[6]
HasHeaderIn(s) == \E i \in 0..(Len(s) - 4) : SubSeq(s, i + 1, i + 4) = ETVR_HEADER

\* s is one frame whose length field counts the payload and the end marker,
\* with a valid checksum byte, followed by noise without a header
FrameThenNoise(s) ==
  /\ Len(s) >= 9
  /\ SubSeq(s, 1, 4) = ETVR_HEADER
  /\ LET L == LengthOf(s)
     IN /\ L >= 2
        /\ Len(s) >= L + 8
        /\ SubSeq(s, L + 5, L + 6) = JPEG_EOI
        /\ s[L + 7] = InvCrc(SubSeq(s, 7, L + 6))
        /\ ~HasHeaderIn(SubSeq(s, L + 8, Len(s)))

\* s is one frame whose length field counts the payload only, then the end
\* marker, a checksum byte over the payload, and noise without a header
PayloadFrameThenNoise(s) ==
  /\ Len(s) >= 9
  /\ SubSeq(s, 1, 4) = ETVR_HEADER
  /\ LET L == LengthOf(s)
     IN /\ Len(s) >= L + 10
        /\ SubSeq(s, L + 7, L + 8) = JPEG_EOI
        /\ s[L + 9] = InvCrc(SubSeq(s, 7, L + 6))
        /\ ~HasHeaderIn(SubSeq(s, L + 10, Len(s)))

\* C1 as stated: one call on a stream of one frame plus noise returns the
\* frame's payload, the bytes between the length field and the end marker,
\* whichever of the two the length field counts.
C1_Original ==
  (pre.called /\ pre.buffer = <<>>) =>
     /\ FrameThenNoise(pre.rx) =>
          (ret.frame /\ ret.jpeg = SubSeq(pre.rx, 7, LengthOf(pre.rx) + 4))
     /\ PayloadFrameThenNoise(pre.rx) =>
          (ret.frame /\ ret.jpeg = SubSeq(pre.rx, 7, LengthOf(pre.rx) + 6))

\* C1 (amended): one call on an empty accumulator and a stream of one frame
\* whose length field counts payload and end marker, followed by at least
\* one noise byte, all within one 2048-byte read, returns the payload
\* together with the end marker: the length-field-many bytes after the header.
C1_FrameReturned ==
  (/\ pre.called /\ pre.buffer = <<>>
   /\ FrameThenNoise(pre.rx)
   /\ LengthOf(pre.rx) + 8 <= READ_SIZE)
  => (ret.frame /\ ret.jpeg = SubSeq(pre.rx, 7, LengthOf(pre.rx) + 6))

C1_Witness ==
  /\ pre.called /\ pre.buffer = <<>>
  /\ FrameThenNoise(pre.rx)
  /\ ret.frame /\ Len(ret.jpeg) = 4

\* C2 as stated: after a frame with a checksum byte is extracted the
\* accumulator holds exactly the bytes after the checksum byte; of the
\* 115-byte scenario buffer the six junk bytes remain.
C2_Original ==
  (/\ pre.called /\ ~pre.flushed /\ ret.frame
   /\ Slice(Candidate, pre.end - 2, pre.end) # MarkerA)
  => /\ buffer = Tail_(Taken, pre.beg + pre.end - 1)
     /\ (pre.buffer = <<>> /\ pre.rx = Scenario) => buffer = Junk

\* C2 (amended): after a frame is extracted the accumulator starts two bytes
\* before the frame's expected end offset, at the checksum byte; of the
\* scenario buffer seven bytes remain, the checksum byte and the junk.
C2_AccumulatorKeepsTrailer ==
  (pre.called /\ ~pre.flushed /\ ret.frame)
  => /\ buffer = Tail_(Taken, pre.beg + pre.end - 2)
     /\ (pre.buffer = <<>> /\ pre.rx = Scenario) =>
           buffer = <<InvCrc(Zeros(100) \o JPEG_EOI)>> \o Junk

C2_Witness ==
  /\ pre.called /\ pre.buffer = <<>> /\ pre.rx = Scenario
  /\ ret.frame /\ Len(ret.jpeg) = 102 /\ Len(buffer) = 7

\* the candidate ends in the end marker but its checksum byte matches
\* neither the CRC nor the no-checksum bytes
ChecksumMismatch ==
  /\ Buffered
  /\ Slice(Candidate, pre.end - 4, pre.end - 2) = JPEG_EOI
  /\ Slice(Candidate, pre.end - 2, pre.end) # MarkerA
  /\ Candidate[pre.end - 1] # InvCrc(Slice(Candidate, 6, pre.end - 2))

C4_Original ==
  (Buffered /\ Slice(Candidate, pre.end - 4, pre.end - 2) # JPEG_EOI)
  => (~ret.frame /\ buffer = Tail_(Candidate, pre.end))

\* C5: a returned payload follows a header in the bytes the call had, has
\* the length the header's length field gives, and ends in the end marker.
C5_FrameHasHeaderAndTerminator ==
  (pre.called /\ ret.frame) =>
     LET S == pre.buffer \o pre.rx
         L == LengthOf(Tail_(S, pre.beg))
     IN /\ pre.beg >= 0
        /\ SubSeq(S, pre.beg + 1, pre.beg + 4) = ETVR_HEADER
        /\ Len(ret.jpeg) = L
        /\ ret.jpeg = SubSeq(S, pre.beg + 7, pre.beg + 6 + L)
        /\ SubSeq(S, pre.beg + L + 5, pre.beg + L + 6) = JPEG_EOI

C5_Witness == pre.called /\ ret.frame /\ pre.buffer # <<>> /\ Len(ret.jpeg) = 3

\* the candidate is buffered and ends in the end marker
TerminatedCandidate ==
  Buffered /\ Slice(Candidate, pre.end - 4, pre.end - 2) = JPEG_EOI

\* C6 as stated: a terminated candidate is accepted exactly when the bytes
\* after the end marker repeat header marker B or the checksum byte is the
\* inverted CRC of the payload.
C6_Original ==
  TerminatedCandidate =>
    (ret.frame <=>
       \/ Slice(Candidate, pre.end - 2, pre.end) = MarkerB
       \/ Candidate[pre.end - 1] = InvCrc(Slice(Candidate, 6, pre.end - 2)))

\* C6 (amended): a terminated candidate is accepted exactly when the two
\* bytes after the end marker are header marker A (FF A0), without any CRC
\* validation, or the first of them is the inverted CRC of the payload.
C6_SentinelIsMarkerA ==
  TerminatedCandidate =>
    (ret.frame <=>
       \/ Slice(Candidate, pre.end - 2, pre.end) = MarkerA
       \/ Candidate[pre.end - 1] = InvCrc(Slice(Candidate, 6, pre.end - 2)))

C6_Witness ==
  /\ TerminatedCandidate /\ ret.frame
  /\ Slice(Candidate, pre.end - 2, pre.end) = MarkerA
  /\ Candidate[pre.end - 1] # InvCrc(Slice(Candidate, 6, pre.end - 2))

\* C7 as stated: the header search starts from the last header when the
\* accumulator is longer than 2.3 * sp_max and from the first otherwise.
C7_Original ==
  (pre.called /\ Len(FirstRead) >= ETVR_HEADER_LEN) =>
     pre.beg = IF 10 * Len(FirstRead) > 23 * pre.sp_max
               THEN RFind(FirstRead) ELSE Find(FirstRead)

\* C8: sp_max starts at 2560 and never decreases; it changes only in a call,
\* to the expected end offset of that call's candidate, and every call whose
\* candidate ends beyond sp_max raises it, whether it returns the frame or
\* finds the candidate incomplete or without its end marker.
C8_SpMaxMonotone ==
  /\ sp_max = SP_MAX_INIT
  /\ [][/\ sp_max' >= sp_max
        /\ sp_max' # sp_max => (pre'.called /\ sp_max' = pre'.end)
        /\ (/\ pre'.called /\ ~pre'.flushed /\ pre'.end > sp_max
            /\ (ret'.frame \/ ~TerminatedCandidate')) => sp_max' = pre'.end]_vars

C8_Witness == pre.called /\ ret.frame /\ sp_max > pre.sp_max

\* ------------------------------------------- the capture loop's claims
\* frames were put on the queue in the order they were read
PushedInPullOrder ==
  \A i \in 1..(Len(pushed) - 1) : pushed[i].n < pushed[i + 1].n

\* the queue holds the frames put on it and not yet taken, oldest first
QueueIsFifo ==
  \E k \in 0..Len(pushed) : queue = SubSeq(pushed, k + 1, Len(pushed))

\* C9: the frames pushed never outnumber the times the consumer raised the
\* token (nor its set() calls), they are queued in the order they were read,
\* a frame is read for pushing only while the token is set, and the token is
\* clear when push_image_to_queue returns.
C9_OneFramePerRequest ==
  /\ [](/\ Len(pushed) <= nrise
        /\ nrise <= nset
        /\ PushedInPullOrder
        /\ QueueIsFifo
        /\ (pc = "put" => capture_event))
  /\ [][/\ (pc = "clear" /\ pc' # "clear") => ~capture_event'
        /\ (pc = "pull" /\ pc' = "put") => capture_event]_vars

C9_Witness ==
  /\ Len(pushed) = 2 /\ nrise = 2 /\ pc = "after" /\ ~capture_event
  /\ pushed[1].n < pushed[2].n

\* C10 as stated: no frame put on the queue is the first successful read
\* since its backend was (re)opened.
C10_Original == \A i \in 1..Len(pushed) : ~pushed[i].first


\* ------------------------------------------------ the loop's claims, continued
\* the step reads a frame from the cv2 device
UsbFrameRead ==
  /\ pc = "pull" /\ capture_source # NoSource /\ ~IsSerialSource(capture_source)
  /\ nread' = nread + 1

\* C11 (as the specification states it): once a field of the source
\* configuration has changed while the cv2 device is open, the next iteration
\* reopens the device before any further frame is pulled: a frame is read only
\* in an iteration that found the settings of the open device current at its
\* top, or that has reopened the device.
C11_Original ==
  [][UsbFrameRead => (~iter.stale \/ iter.reopened)]_vars

\* the step ends a loop iteration
IterationEnds == pc # "top" /\ pc' = "top"

\* C12 (as the specification states it): after a backend open failure or a
\* frame read failure in an iteration, the warm-up read after a reopen
\* included, camera_status is DISCONNECTED when that iteration ends.
C12_Original ==
  [][(IterationEnds /\ iter.failed) => camera_status' = DISCONNECTED]_vars

\* C13 (as the specification states it): while a serial source is configured
\* whose port is not enumerated, start_serial_connection opens nothing and
\* camera_status is never CONNECTED.
C13_Original ==
  iter.absent => (~serial_connection.is_open /\ camera_status # CONNECTED)

\* run has returned, or an exception has ended it
Returned == pc \in {"done", "crashed"}

\* C14 (as the specification states it): once the cancellation signal is set,
\* Camera.run eventually returns, whatever the consumer does.
C14_Original == cancellation_event ~> Returned

\* the capture thread is at the put with two frames unconsumed
ThirdPush == pc = "put" /\ Len(queue) = QUEUE_MAX

\* the step is the occupancy check of a push that finds more than one frame
FindsBacklog == pc = "pull" /\ pc' = "put" /\ Len(queue) > 1

\* C15 (as the specification states it): pushing a third frame while two are
\* unconsumed still succeeds: push_image_to_queue can complete its put.
C15_Original == ThirdPush => ENABLED PutImage

\* C15: the queue never holds more than 2 frames; with two unconsumed the put
\* of a third blocks the capture thread, and it completes, and the token is
\* then cleared, only once the consumer has taken a frame; exactly the
\* occupancy checks that find more than one frame print a warning, one each.
C15_BlockingPush ==
  /\ [](/\ Len(queue) <= QUEUE_MAX
        /\ ThirdPush => ~ENABLED CaptureStep)
  /\ [][/\ nwarn' = IF FindsBacklog THEN nwarn + 1 ELSE nwarn
        /\ pushed' # pushed =>
             /\ Len(queue) < QUEUE_MAX
             /\ queue' = Append(queue, image)
             /\ pc' = "clear"
        /\ (pc = "clear" /\ pc' # "clear") => ~capture_event']_vars

C15_Witness ==
  /\ Len(pushed) = QUEUE_MAX + 1 /\ Len(queue) = QUEUE_MAX
  /\ nwarn = 1 /\ pc = "after" /\ ~capture_event

\* ------------------------------------------------- clamp_max_res's claim
\* C16 (as the specification states it): an image whose larger dimension
\* exceeds 600 comes back with the larger dimension exactly 600 and the other
\* scaled by the same factor; an image within 600 comes back unchanged; no
\* dimension grows.
C16_Original ==
  clamped # <<>> =>
    LET max_value == Max2(shape[1], shape[2])
    IN  /\ max_value > MAX_RESOLUTION =>
             /\ Max2(clamped[1], clamped[2]) = MAX_RESOLUTION
             /\ \A i \in 1..2 :
                  clamped[i] = (MAX_RESOLUTION * shape[i]) \div max_value
        /\ max_value <= MAX_RESOLUTION => clamped = shape
        /\ \A i \in 1..2 : clamped[i] <= shape[i]

\* ------------------------------------------- the loop's claims, continued
\* since the last attempt to open a backend, the open succeeded and a frame
\* has been read
ReadSinceOpen == open_ok /\ ~fresh

\* C17 (as the specification states it): camera_status is CONNECTED only if,
\* since the most recent (re)open, the open succeeded and at least one frame
\* read succeeded.
C17_Original == camera_status = CONNECTED => ReadSinceOpen

\* the step makes the iteration's first access to the backend for a frame
BackendRead == iter'.reads > iter.reads

\* C18: in an iteration that has not reopened the cv2 device, the loop is at
\* the pull, and reads from the backend, only after the wait found the token
\* set; nothing is read before the wait; when the wait times out the
\* iteration ends there, with no read, no push and the status as it was, and
\* the next iteration starts with the cancellation check and goes on to the
\* connection tests.
C18_PullOnlyOnToken ==
  /\ [](/\ (pc = "pull" /\ ~iter.reopened) => iter.waited = "set"
        /\ pc \in {"open", "idle", "usb_open", "token"} => iter.reads = 0)
  /\ [][/\ (BackendRead /\ ~iter.reopened) =>
             (pc = "pull" /\ iter.waited = "set")
        /\ (pc = "token" /\ pc' # "token" /\ ~iter.reopened
               /\ ~capture_event) =>
             /\ pc' = "top" /\ iter.reads = 0
             /\ UNCHANGED <<nread, pushed, queue, buffer, rx, camera_status>>
        /\ (pc = "top" /\ pc' # "top") =>
             pc' = IF cancellation_event THEN "done" ELSE "open"]_vars

C18_Witness ==
  /\ pc = "top" /\ iter.waited = "timeout"
  /\ cv2_camera = "opened" /\ camera_status = CONNECTED /\ Len(pushed) = 1

\* ------------------------------------------ the framer's claims, continued
\* the byte stream from the header the call chose: what the call has had in
\* the accumulator, then what waits in the connection and on the wire
Stream == Candidate \o rx \o wire

\* at offset k of s starts a complete frame of firmware with checksum
\* support: header, length, a JPEG that ends with the end-of-image marker,
\* and the checksum byte of that JPEG
WellFormedAt(s, k) ==
  /\ Len(s) >= k + ETVR_HEADER_LEN + 3
  /\ HeaderAt(s, k)
  /\ LET L == LengthOf(Tail_(s, k))
     IN /\ L >= 2
        /\ Len(s) >= k + ETVR_HEADER_LEN + L + 1
        /\ Slice(s, k + ETVR_HEADER_LEN + L - 2, k + ETVR_HEADER_LEN + L)
             = JPEG_EOI
        /\ s[k + ETVR_HEADER_LEN + L + 1]
             = InvCrc(Slice(s, k + ETVR_HEADER_LEN, k + ETVR_HEADER_LEN + L))

JpegAt(s, k) ==
  Slice(s, k + ETVR_HEADER_LEN, k + ETVR_HEADER_LEN + LengthOf(Tail_(s, k)))

\* the call rejected its candidate: the terminator or the checksum does not
\* match
RejectedCall == ChecksumMismatch \/ (Buffered /\ ~TerminatedCandidate)

\* where the frame after the rejected one starts in Stream: right after the
\* JPEG (no checksum byte) or one byte later (checksum byte)
Following ==
  {k \in {pre.end - 2, pre.end - 1} : WellFormedAt(Stream, k)}

\* the JPEGs that get_next_jpeg_frame returns when it is called again and
\* again on accumulator b with c in the connection, until a call returns
\* nothing and leaves both as they were
RECURSIVE LaterFrames(_, _, _)
LaterFrames(b, sp, c) ==
  LET r == GetNextJpegFrame(b, sp, c)
  IN IF ~r.ret.frame /\ r.buffer = b /\ r.rx = c THEN {}
     ELSE (IF r.ret.frame THEN {r.ret.jpeg} ELSE {})
          \cup LaterFrames(r.buffer, r.sp_max, r.rx)

\* what the later calls find in the connection: all that is under way, and
\* one byte of whatever the device sends after it (a call parses a candidate
\* only once the accumulator reaches its end offset, line 220)
Ahead == rx \o wire \o <<0>>

\* C19 (as the specification states it): after a call rejected a candidate
\* for its checksum or its terminator, a well-formed frame that comes next in
\* the byte stream is returned by a later call, while neither skip-ahead nor
\* a flush is in play.
C19_Original ==
  (RejectedCall /\ ~SkipAhead(Len(buffer \o Ahead), sp_max)) =>
     \A k \in Following :
        JpegAt(Stream, k) \in LaterFrames(buffer, sp_max, Ahead)

\* the same with the rejection left out: the frame after a frame that was
\* returned is returned by a later call
ResumesAfterFrame ==
  (Buffered /\ ret.frame
     /\ ~SkipAhead(Len(buffer \o Ahead), sp_max)) =>
     \A k \in Following :
        JpegAt(Stream, k) \in LaterFrames(buffer, sp_max, Ahead)

\* ------------------------------------------- the loop's claims, continued
\* the iteration took the branch without a source (lines 153-157), the
\* source is still None or empty and the loop has not been cancelled
IdleIteration ==
  iter.idle /\ ~Configured(capture_source) /\ ~cancellation_event

\* C20 (as the specification states it): while no source is configured, an
\* iteration only waits and retries: it reads from no backend, pushes no
\* frame and leaves camera_status as it was, whatever the request token and
\* whatever device handle is still held.
C20_Original ==
  [][(IdleIteration /\ ~Configured(capture_source')) =>
        /\ ~BackendRead
        /\ pushed' = pushed
        /\ camera_status' = camera_status]_vars

\* the same for a source that is None: the test at line 163 ends the
\* iteration
C20_NoneOnly ==
  [][(IdleIteration /\ capture_source = NoSource
        /\ capture_source' = NoSource) =>
        /\ ~BackendRead
        /\ pushed' = pushed
        /\ camera_status' = camera_status]_vars

\* ------------------------------- the hand-off with a consumer in lockstep
\* frames the consumer has taken off the queue
TakenFrames == Len(pushed) - Len(queue)

\* the consumer asks for a frame, takes it, and only then asks for the next:
\* it sets the token when it has taken as many frames as it has asked for
RequestNext == nset = TakenFrames /\ RequestUpTo(MaxSets)

NextLockstep ==
  \/ LoopTop \/ OpenUsb \/ UsbReopen \/ WaitToken \/ PullUsbHandoff
  \/ PutImage \/ ClearToken \/ AfterPull
  \/ RequestNext \/ Take \/ Cancel

SpecLockstep == InitHandoff /\ [][NextLockstep]_vars /\ WF_vars(CaptureStep)

\* the consumer has asked for a frame that has not been pushed yet
Pending == nset > Len(pushed)

\* the capture thread is about to wait on the token (line 161)
AtTokenWait == pc = "token" /\ should_push

\* C21 (as the specification states it): a request the consumer makes after
\* taking a frame is not lost between the push and the clearing of the token:
\* the token is still set when the capture thread next waits on it.
C21_Original == (AtTokenWait /\ Pending) => capture_event

\* the request is lost for good: the consumer waits for the frame it asked
\* for, the token is clear, and the capture thread is not about to set it
C21_Lost ==
  /\ Pending /\ ~capture_event /\ queue = <<>> /\ pc = "token"
  /\ nset = TakenFrames + 1 /\ ~cancellation_event

\* ------------------------------------------- the loop's claims, continued
\* the backend whose read run calls for source s (lines 164-169)
Puller(s) == IF IsSerialSource(s) THEN "serial" ELSE "usb"

\* the step is the pull of an iteration (lines 163-169) for a configured
\* source that the GUI has not changed since the thread started
PullStep ==
  /\ pc = "pull" /\ pc' # "pull"
  /\ Configured(capture_source) /\ nchg = 0

\* C22 (as the specification states it): the backend an iteration selects
\* to (re)open the connection is the backend it selects for the pull: what
\* is read through the serial path has gone through the serial branch, and
\* what was opened as a USB capture is read through the USB path.
C22_Original ==
  [][PullStep =>
       /\ iter.opener = Puller(capture_source)
       /\ iter.reopened => Puller(capture_source) = "usb"]_vars

\* the same for every source but a serial device path without "COM"
C22_ButTty ==
  [][(PullStep /\ capture_source # TtyPort) =>
       /\ iter.opener = Puller(capture_source)
       /\ iter.reopened => Puller(capture_source) = "usb"]_vars

\* the iteration is at the connection tests (line 96) with a cv2 device
\* that is open and connected, and a source the GUI has not changed since
\* the thread started
SettledUsb ==
  /\ pc = "open" /\ nchg = 0
  /\ cv2_camera = "opened" /\ camera_status = CONNECTED

\* C23 (as the specification states it): once a USB source has been opened,
\* and neither the configuration nor the device's health changes, later
\* iterations do not reopen the device, for a numeric index and for a camera
\* name alike.
C23_Original == [][SettledUsb => pc' # "usb_open"]_vars

\* the same for a source given as a numeric index
C23_ByIndex ==
  [][(SettledUsb /\ capture_source = UsbIndex) => pc' # "usb_open"]_vars

\* with a camera name as the source, no frame is ever pushed
C23_NameStarves == (capture_source = CamName /\ nchg = 0) => pushed = <<>>

\* --------------------------------- a stream of well-formed frames only
\* the device sends frames with a valid checksum, one right after the other
ProduceFrame == Produce({CrcFrame(b) : b \in Bodies}, MaxStreamFrames)

NextStream == ProduceFrame \/ DeliverAll \/ DeliverPiece \/ SerialCall

SpecStream == InitFramer /\ [][NextStream]_vars

\* every byte that has been sent and is not parsed yet
Unparsed == buffer \o rx \o wire

\* s without the bytes before its first header: after a frame was returned
\* the accumulator starts with that frame's checksum byte (line 229)
FromHeader(s) == IF Find(s) = -1 THEN <<>> ELSE Tail_(s, Find(s))

\* number of bytes of the frame that starts s: header, length field, the
\* bytes the length field counts, checksum byte
FrameLen(s) == ETVR_HEADER_LEN + LengthOf(s) + 1

\* stands for bytes that are not a complete well-formed frame; the JPEG of
\* a well-formed frame is never empty
Torn == <<>>

\* the JPEGs of the frames that s consists of, in order
RECURSIVE FramesOf(_)
FramesOf(s) ==
  IF s = <<>> THEN <<>>
  ELSE IF WellFormedAt(s, 0)
       THEN <<JpegAt(s, 0)>>
            \o FramesOf(CHOOSE t \in {Tail_(s, FrameLen(s))} : TRUE)
       ELSE <<Torn>>

\* the frames in accumulator b, connection c and wire w
UpcomingIn(b, c, w) == FramesOf(CHOOSE s \in {FromHeader(b \o c \o w)} : TRUE)

\* the frames sent and not returned yet
Upcoming == UpcomingIn(buffer, rx, wire)

\* no byte of a frame that has not been returned is missing
Intact == \A i \in 1..Len(Upcoming) : Upcoming[i] # Torn

\* the step is a call of get_next_jpeg_frame
CallStep == pre'.called

\* what the call finds buffered, from the header on
Buffered_(b, c) == FromHeader(b \o c)

\* the first frame is buffered completely
Complete(s) == Len(s) >= ETVR_HEADER_LEN /\ Len(s) >= FrameLen(s)

\* the first frame and one byte after it are buffered: the accumulator
\* reaches the end offset of line 217
ReachesEnd(s) == Len(s) >= ETVR_HEADER_LEN /\ Len(s) >= EndOf(s)

\* what every call does with the frames to come: it returns the first of
\* them and leaves the others, or returns nothing and leaves them all
InOrderOnce ==
  CallStep =>
    IF ret'.frame
    THEN Upcoming # <<>> /\ ret'.jpeg = Head(Upcoming)
         /\ UpcomingIn(buffer', rx', wire') = Tail(Upcoming)
    ELSE UpcomingIn(buffer', rx', wire') = Upcoming

\* C24 (as the specification states it): in a stream of well-formed frames
\* sent back to back and delivered in arbitrary chunks, every frame is
\* returned exactly once and in stream order, by the call that finds it
\* buffered completely; a call that finds it buffered in part returns
\* nothing and removes none of its bytes.
C24_Original ==
  /\ []Intact
  /\ [][InOrderOnce
        /\ (CallStep => (ret'.frame <=> Complete(Buffered_(buffer, rx))))]_vars

\* C24: the same, where the call that returns a frame is the one that finds
\* the frame and at least one byte after it buffered; the last frame of a
\* stream stays in the accumulator until another byte arrives.
C24_ReturnedOnceInOrder ==
  /\ []Intact
  /\ [][InOrderOnce
        /\ (CallStep => (ret'.frame <=> ReachesEnd(Buffered_(buffer, rx))))]_vars

\* all frames but the last have been returned, the latest by a call that
\* started with a part of it in the accumulator
C24_Witness ==
  /\ pre.called /\ ret.frame /\ nsent = MaxStreamFrames
  /\ Len(pre.buffer) > 1 /\ Len(Upcoming) = 1

\* the last frame is buffered completely and a call has returned nothing
C24_LastWaits ==
  /\ pre.called /\ ~ret.frame /\ wire = <<>> /\ rx = <<>>
  /\ Len(Upcoming) = 1 /\ Complete(buffer)

\* ------------------------------------------- the loop's claims, continued
\* both device handles are open
TwoHandles == cv2_camera = "opened" /\ serial_connection.is_open

\* the step reads from the serial backend
SerialRead == BackendRead /\ IsSerialSource(capture_source)

\* the step reads from the cv2 backend
UsbRead == BackendRead /\ ~IsSerialSource(capture_source)

\* C25 (as the specification states it): after the source has changed from
\* one backend to the other, the handle of the previous backend is closed
\* before a frame is pulled from the new source, and at most one device
\* handle is open at any time.
C25_Original ==
  /\ []~TwoHandles
  /\ [][/\ SerialRead => cv2_camera # "opened"
        /\ UsbRead => ~serial_connection'.is_open]_vars

\* the half that concerns a change from serial to USB: the serial
\* connection is closed when the cv2 device is read
C25_SerialClosedAtUsbRead ==
  [][UsbRead => ~serial_connection'.is_open]_vars

\* a frame from the serial device is on the queue while the cv2 device
\* opened for the previous source is still open
C25_BothOpen ==
  /\ TwoHandles /\ nchg > 0 /\ IsSerialSource(capture_source)
  /\ pushed # <<>> /\ pushed[Len(pushed)].src = "serial"

====
